---- MODULE Spec2Model ----
(***************************************************************************)
(* Circuit breaker, command services and read-side projections of the      *)
(* task management system.                                                 *)
(*                                                                         *)
(* Two command services exist in the sources: TaskCommandService (takes    *)
(* the Task by value, keeps only an event log) and TaskService (keeps the  *)
(* tasks, looks them up by id).  Both own one CircuitBreaker and one event *)
(* log.  The variable impl records which of the two was constructed.       *)
(*                                                                         *)
(* execute() is an async function: its gate check runs synchronously when  *)
(* the call is made, the wrapped operation then waits on a timer, and the  *)
(* rest of the operation together with onSuccess/onFailure runs when the   *)
(* timer fires.  A call is therefore two steps (invocation, completion)    *)
(* and other calls may be invoked or completed between them.  The several  *)
(* Date.now() reads of one operation body run in one synchronous block and *)
(* are taken to return one value.                                          *)
(*                                                                         *)
(* Spec is the command side (both services); its callers use one title,    *)
(* one priority and one target status.  SpecQuery is the read side, whose  *)
(* two functions are applied to arrays drawn from bounded sets.            *)
(***************************************************************************)
EXTENDS Integers, Sequences, FiniteSets, TLC

VARIABLES
    impl,            \* which service class was constructed
    now,             \* Date.now()
    circuitBreaker,  \* the service's CircuitBreaker: state, failureCount, successCount, nextAttempt
    tasks,           \* TaskService.tasks (stays empty in TaskCommandService)
    eventStore,      \* the service's eventStore
    inflight,        \* admitted calls waiting on their timer, in invocation order
    last,            \* observer: what the latest step was and what its caller saw
    nCalls,          \* observer: number of calls invoked so far
    returned,        \* observer: number of calls that returned a Task
    overlapped,      \* observer: some call was invoked while another was waiting
    failStreak,      \* observer: failed operations since the last one that returned
    healAt,          \* environment: -1, or nCalls when its operations stopped failing
    qEvents,         \* query side: the events array handed to getRecentEvents
    qLimit,          \* query side: the limit handed to getRecentEvents
    qTasks,          \* query side: the tasks array handed to getTaskMetrics
    qResult          \* query side: what the latest query returned

vars == <<impl, now, circuitBreaker, tasks, eventStore, inflight, last, nCalls,
          returned, overlapped, failStreak, healAt, qEvents, qLimit, qTasks, qResult>>

svcVars == <<impl, now, circuitBreaker, tasks, eventStore, inflight, last, nCalls,
             returned, overlapped, failStreak, healAt>>

qVars == <<qEvents, qLimit, qTasks, qResult>>

----------------------------------------------------------------------------
(* Bounds of the model *)

MaxCalls == 5        \* calls invoked in one behaviour
MaxInflight == 2     \* calls waiting on their timer at the same time
MaxTime == 6500      \* the clock stops here
MaxRand == 1         \* distinct outcomes of Math.random() in a task id
MaxQLen == 6         \* length of the arrays handed to getRecentEvents
MaxQLimit == 7       \* |limit| handed to getRecentEvents
MaxQTasks == 4       \* length of the arrays handed to getTaskMetrics

(* Program constants *)

threshold == 3          \* CircuitBreaker constructor default
timeout == 5000         \* CircuitBreaker constructor default
successThreshold == 2   \* CircuitBreaker constructor default
CreateDelay == 300      \* setTimeout in createTask
UpdateDelay == 200      \* setTimeout in updateTaskStatus
DefaultLimit == 5       \* getRecentEvents(events, limit = 5)

Statuses == {"pending", "in_progress", "completed", "failed"}
Priorities == {"low", "medium", "high"}
EventTypes == {"TASK_CREATED", "TASK_UPDATED", "TASK_COMPLETED", "TASK_FAILED"}
BreakerStates == {"CLOSED", "OPEN", "HALF_OPEN"}

Min(a, b) == IF a < b THEN a ELSE b
Max(a, b) == IF a > b THEN a ELSE b

----------------------------------------------------------------------------
(* Domain values *)

\* `task_${Date.now()}_${Math.random()...}`: the clock and the random suffix
TaskId(t, r) == <<t, r>>

Task(id, title, status, priority, createdAt, updatedAt) ==
    [id |-> id, title |-> title, status |-> status, priority |-> priority,
     createdAt |-> createdAt, updatedAt |-> updatedAt]

DomainEvent(type, payload, timestamp, aggregateId) ==
    [type |-> type, payload |-> payload, timestamp |-> timestamp,
     aggregateId |-> aggregateId]

----------------------------------------------------------------------------
(* CircuitBreaker *)

NewCircuitBreaker(t) ==
    [state |-> "CLOSED", failureCount |-> 0, successCount |-> 0, nextAttempt |-> t]

\* Faulty variant of Gate: after the cool-down the call is admitted but the
\* state is left OPEN
GateStaysOpen(b, t) ==
    IF b.state = "OPEN" /\ t < b.nextAttempt
    THEN [admit |-> FALSE, cb |-> b]
    ELSE [admit |-> TRUE, cb |-> b]

\* Faulty variant of Gate: still rejects at now = nextAttempt (<= for <)
GateOpenOnBoundary(b, t) ==
    IF b.state = "OPEN"
    THEN IF t <= b.nextAttempt
         THEN [admit |-> FALSE, cb |-> b]
         ELSE [admit |-> TRUE, cb |-> [b EXCEPT !.state = "HALF_OPEN"]]
    ELSE [admit |-> TRUE, cb |-> b]

\* Faulty variant of Gate: the cool-down is not looked at
GateNeverRejects(b, t) ==
    IF b.state = "OPEN"
    THEN [admit |-> TRUE, cb |-> [b EXCEPT !.state = "HALF_OPEN"]]
    ELSE [admit |-> TRUE, cb |-> b]

\* The gate of execute: rejects while OPEN and the clock is before nextAttempt,
\* otherwise admits, turning OPEN into HALF_OPEN first.
Gate(b, t) ==
    IF b.state = "OPEN"
    THEN IF t < b.nextAttempt
         THEN [admit |-> FALSE, cb |-> b]
         ELSE [admit |-> TRUE, cb |-> [b EXCEPT !.state = "HALF_OPEN"]]
    ELSE [admit |-> TRUE, cb |-> b]

\* Faulty variant of onSuccess: closes one success late (> for >=)
onSuccessAboveThreshold(b) ==
    LET b1 == [b EXCEPT !.failureCount = 0] IN
    IF b1.state = "HALF_OPEN"
    THEN LET b2 == [b1 EXCEPT !.successCount = @ + 1] IN
         IF b2.successCount > successThreshold
         THEN [b2 EXCEPT !.state = "CLOSED", !.successCount = 0]
         ELSE b2
    ELSE b1

\* Faulty variant of onSuccess: failureCount is reset only in HALF_OPEN
onSuccessKeepsFailureCount(b) ==
    IF b.state = "HALF_OPEN"
    THEN LET b2 == [b EXCEPT !.failureCount = 0, !.successCount = @ + 1] IN
         IF b2.successCount >= successThreshold
         THEN [b2 EXCEPT !.state = "CLOSED", !.successCount = 0]
         ELSE b2
    ELSE b

\* Faulty variant of onSuccess: successCount is not reset when the breaker closes
onSuccessKeepsCount(b) ==
    LET b1 == [b EXCEPT !.failureCount = 0] IN
    IF b1.state = "HALF_OPEN"
    THEN LET b2 == [b1 EXCEPT !.successCount = @ + 1] IN
         IF b2.successCount >= successThreshold
         THEN [b2 EXCEPT !.state = "CLOSED"]
         ELSE b2
    ELSE b1

\* onSuccess()
onSuccess(b) ==
    LET b1 == [b EXCEPT !.failureCount = 0] IN
    IF b1.state = "HALF_OPEN"
    THEN LET b2 == [b1 EXCEPT !.successCount = @ + 1] IN
         IF b2.successCount >= successThreshold
         THEN [b2 EXCEPT !.state = "CLOSED", !.successCount = 0]
         ELSE b2
    ELSE b1

\* Faulty variant of onFailure: opens one failure late (> for >=)
onFailureAboveThreshold(b, t) ==
    LET b1 == [b EXCEPT !.failureCount = @ + 1, !.successCount = 0] IN
    IF b1.failureCount > threshold
    THEN [b1 EXCEPT !.state = "OPEN", !.nextAttempt = t + timeout]
    ELSE b1

\* onFailure(), t the value of Date.now()
onFailure(b, t) ==
    LET b1 == [b EXCEPT !.failureCount = @ + 1, !.successCount = 0] IN
    IF b1.failureCount >= threshold
    THEN [b1 EXCEPT !.state = "OPEN", !.nextAttempt = t + timeout]
    ELSE b1

getState(b) == b.state

----------------------------------------------------------------------------
(* TaskQueryService *)

\* Array.prototype.slice(start) with one argument
Slice(s, start) ==
    LET len == Len(s)
        k == IF start < 0 THEN Max(len + start, 0) ELSE Min(start, len)
    IN  SubSeq(s, k + 1, len)

\* Array.prototype.reverse(), as the value it leaves in the array
Reverse(s) == [i \in 1..Len(s) |-> s[Len(s) + 1 - i]]

\* Faulty variant of getTaskMetrics: highPriority leaves out completed tasks
getTaskMetricsOpenHighOnly(ts) ==
    LET isCompleted(t) == t.status = "completed"
        isInProgress(t) == t.status = "in_progress"
        isPending(t) == t.status = "pending"
        isFailed(t) == t.status = "failed"
        isHigh(t) == t.priority = "high" /\ t.status # "completed"
    IN  [total |-> Len(ts),
         completed |-> Len(SelectSeq(ts, isCompleted)),
         inProgress |-> Len(SelectSeq(ts, isInProgress)),
         pending |-> Len(SelectSeq(ts, isPending)),
         failed |-> Len(SelectSeq(ts, isFailed)),
         highPriority |-> Len(SelectSeq(ts, isHigh))]

\* getTaskMetrics(tasks)
getTaskMetrics(ts) ==
    LET isCompleted(t) == t.status = "completed"
        isInProgress(t) == t.status = "in_progress"
        isPending(t) == t.status = "pending"
        isFailed(t) == t.status = "failed"
        isHigh(t) == t.priority = "high"
    IN  [total |-> Len(ts),
         completed |-> Len(SelectSeq(ts, isCompleted)),
         inProgress |-> Len(SelectSeq(ts, isInProgress)),
         pending |-> Len(SelectSeq(ts, isPending)),
         failed |-> Len(SelectSeq(ts, isFailed)),
         highPriority |-> Len(SelectSeq(ts, isHigh))]

\* getRecentEvents(events, limit): what the call returns, and the array it was
\* given as the call leaves it (slice copies, reverse works on the copy)
\* Faulty variant of getRecentEvents: reverses the array it was given in place
\* and takes its first events
getRecentEventsInPlace(events, limit) ==
    [returns |-> SubSeq(Reverse(events), 1, Min(Max(limit, 0), Len(events))),
     events |-> Reverse(events)]

getRecentEvents(events, limit) ==
    [returns |-> Reverse(Slice(events, 0 - limit)), events |-> events]

----------------------------------------------------------------------------
(* The command services *)

\* Faulty variant of publishEvent: the event is put in front of the log
publishEventInFront(store, event) == <<event>> \o store

publishEvent(store, event) == Append(store, event)

\* Faulty variant of getEvents: hands out the stored array itself
getEventsShared(store) == [returns |-> store, shared |-> TRUE]

\* getEvents returns [...this.eventStore]: the same events in a new array.
\* shared tells whether the array returned is the stored array itself.
getEvents(store) == [returns |-> store, shared |-> FALSE]

\* Faulty variant of EventTypeFor: a task set to failed is logged as TASK_FAILED
EventTypeForFailed(status) ==
    CASE status = "completed" -> "TASK_COMPLETED"
      [] status = "failed"    -> "TASK_FAILED"
      [] OTHER                -> "TASK_UPDATED"

EventTypeFor(status) == IF status = "completed" THEN "TASK_COMPLETED" ELSE "TASK_UPDATED"

\* The result of running a wrapped operation after its timer: whether it
\* returned (ok) or threw, the Task it returned, and the service's fields after it.
Outcome(ok, value, ts, store) ==
    [ok |-> ok, value |-> value, tasks |-> ts, eventStore |-> store]

\* TaskCommandService.createTask, the operation handed to execute
CmdCreateTask(ts, store, title, priority, t, r) ==
    LET task == Task(TaskId(t, r), title, "pending", priority, t, t) IN
    Outcome(TRUE, <<task>>, ts,
            publishEvent(store, DomainEvent("TASK_CREATED", task, t, task.id)))

\* Faulty variant of CmdUpdateTaskStatus: the given Task object is assigned to
\* instead of copied, so the events that hold it as payload change with it
CmdUpdateTaskStatusInPlace(ts, store, task, status, t) ==
    LET updatedTask == [task EXCEPT !.status = status, !.updatedAt = t]
        aliased == [i \in DOMAIN store |->
                       IF store[i].payload = task
                       THEN [store[i] EXCEPT !.payload = updatedTask]
                       ELSE store[i]]
    IN  Outcome(TRUE, <<updatedTask>>, ts,
                publishEvent(aliased, DomainEvent(EventTypeFor(status), updatedTask, t, task.id)))

\* TaskCommandService.updateTaskStatus, the operation handed to execute
CmdUpdateTaskStatus(ts, store, task, status, t) ==
    LET updatedTask == [task EXCEPT !.status = status, !.updatedAt = t] IN
    Outcome(TRUE, <<updatedTask>>, ts,
            publishEvent(store, DomainEvent(EventTypeFor(status), updatedTask, t, task.id)))

\* TaskService.createTask, the operation handed to execute
SvcCreateTask(ts, store, title, priority, t, r) ==
    LET task == Task(TaskId(t, r), title, "pending", priority, t, t) IN
    Outcome(TRUE, <<task>>, Append(ts, task),
            publishEvent(store, DomainEvent("TASK_CREATED", task, t, task.id)))

\* this.tasks.find(t => t.id === taskId): the first match, or nothing
Find(ts, taskId) ==
    LET hits == {i \in DOMAIN ts : ts[i].id = taskId} IN
    IF hits = {} THEN <<>>
    ELSE <<ts[CHOOSE i \in hits : \A j \in hits : i <= j]>>

\* Faulty variant of SvcUpdateTaskStatus: the event carries the task as it was
\* before the update
SvcUpdateTaskStatusStalePayload(ts, store, taskId, status, t) ==
    LET found == Find(ts, taskId) IN
    IF found = <<>>
    THEN Outcome(FALSE, <<>>, ts, store)
    ELSE LET task == found[1]
             updatedTask == [task EXCEPT !.status = status, !.updatedAt = t]
         IN  Outcome(TRUE, <<updatedTask>>,
                     [i \in DOMAIN ts |-> IF ts[i].id = taskId THEN updatedTask ELSE ts[i]],
                     publishEvent(store,
                         DomainEvent(EventTypeFor(status), task, t, task.id)))

\* TaskService.updateTaskStatus, the operation handed to execute
SvcUpdateTaskStatus(ts, store, taskId, status, t) ==
    LET found == Find(ts, taskId) IN
    IF found = <<>>
    THEN Outcome(FALSE, <<>>, ts, store)      \* throw new Error('Task not found')
    ELSE LET task == found[1]
             updatedTask == [task EXCEPT !.status = status, !.updatedAt = t]
         IN  Outcome(TRUE, <<updatedTask>>,
                     [i \in DOMAIN ts |-> IF ts[i].id = taskId THEN updatedTask ELSE ts[i]],
                     publishEvent(store,
                         DomainEvent(EventTypeFor(status), updatedTask, t, task.id)))

\* The operation of a waiting call c, run at time t (r: the random suffix drawn
\* if it creates a task)
RunOperation(c, t, r) ==
    IF c.op = "createTask"
    THEN IF impl = "TaskService"
         THEN SvcCreateTask(tasks, eventStore, c.title, c.priority, t, r)
         ELSE CmdCreateTask(tasks, eventStore, c.title, c.priority, t, r)
    ELSE IF impl = "TaskService"
         THEN SvcUpdateTaskStatus(tasks, eventStore, c.taskId, c.status, t)
         ELSE CmdUpdateTaskStatus(tasks, eventStore, c.task, c.status, t)

\* Faulty variant of ExecuteSettle: a failure of the operation is rethrown
\* without being counted
ExecuteSettleFailureUncounted(b, ok, t) == IF ok THEN onSuccess(b) ELSE b

\* execute after `await fn()`: onSuccess and return, or onFailure and rethrow
ExecuteSettle(b, ok, t) == IF ok THEN onSuccess(b) ELSE onFailure(b, t)

----------------------------------------------------------------------------
(* Inputs *)

Titles == {"a"}
CallPriorities == {"high"}
MissingId == TaskId(0 - 1, 0)

\* Math.random() in a task id matters only through equality of ids: the suffix
\* drawn at clock value t either repeats one already drawn at t or is a new
\* one (the least unused stands for all of them).
UsedSuffixes(t) ==
    {e.aggregateId[2] : e \in {x \in {eventStore[i] : i \in DOMAIN eventStore} :
                                 x.aggregateId[1] = t}}

RandomSuffixes(t) ==
    {r \in 1..MaxRand : \/ r \in UsedSuffixes(t)
                        \/ \A q \in 1..(r - 1) : q \in UsedSuffixes(t)}

Range(s) == {s[i] : i \in DOMAIN s}

\* seq: the number of the call the step belongs to (calls are numbered in the
\* order they are made), 0 for a step of the clock
Step(op, step, outcome, result, seq) ==
    [op |-> op, step |-> step, outcome |-> outcome, result |-> result, seq |-> seq]

NoQuery == [op |-> "none"]

----------------------------------------------------------------------------
(* Actions of the command side *)

Init ==
    /\ impl \in {"TaskCommandService", "TaskService"}
    /\ now = 0
    /\ circuitBreaker = NewCircuitBreaker(0)
    /\ tasks = <<>>
    /\ eventStore = <<>>
    /\ inflight = <<>>
    /\ last = Step("none", "none", "none", <<>>, 0)
    /\ nCalls = 0
    /\ returned = 0
    /\ overlapped = FALSE
    /\ failStreak = 0
    /\ healAt = 0 - 1
    /\ qEvents = <<>>
    /\ qLimit = DefaultLimit
    /\ qTasks = <<>>
    /\ qResult = NoQuery

\* A call of execute up to the await inside the wrapped operation: the gate,
\* then the operation starts its timer.  c is the call with its arguments.
Invoke(c, delay) ==
    LET g == Gate(circuitBreaker, now) IN
    /\ nCalls' = nCalls + 1
    /\ IF g.admit
       THEN /\ Len(inflight) < MaxInflight
            /\ circuitBreaker' = g.cb
            /\ inflight' = Append(inflight,
                                   [c EXCEPT !.due = now + delay, !.seq = nCalls + 1])
            /\ overlapped' = (overlapped \/ inflight # <<>>)
            /\ last' = Step(c.op, "invoke", "admitted", <<>>, nCalls + 1)
       ELSE /\ last' = Step(c.op, "invoke", "rejected", <<>>, nCalls + 1)
            /\ UNCHANGED <<circuitBreaker, inflight, overlapped>>
    /\ UNCHANGED <<impl, now, tasks, eventStore, returned, failStreak, healAt, qVars>>

createTask(title, priority) ==
    Invoke([op |-> "createTask", title |-> title, priority |-> priority, due |-> 0,
            seq |-> 0],
           CreateDelay)

\* TaskCommandService.updateTaskStatus(task, status): the caller passes a Task
\* it was given by an earlier call
updateTaskStatusByValue(task, status) ==
    /\ impl = "TaskCommandService"
    /\ Invoke([op |-> "updateTaskStatus", task |-> task, status |-> status, due |-> 0,
               seq |-> 0],
              UpdateDelay)

\* TaskService.updateTaskStatus(taskId, status)
updateTaskStatusById(taskId, status) ==
    /\ impl = "TaskService"
    /\ Invoke([op |-> "updateTaskStatus", taskId |-> taskId, status |-> status, due |-> 0,
               seq |-> 0],
              UpdateDelay)

\* Timers fire in the order of their deadlines, equal deadlines in the order
\* they were set.
FiresNext(i) ==
    /\ now >= inflight[i].due
    /\ \A j \in DOMAIN inflight :
          \/ inflight[j].due > inflight[i].due
          \/ (inflight[j].due = inflight[i].due /\ j >= i)

Remove(s, i) == SubSeq(s, 1, i - 1) \o SubSeq(s, i + 1, Len(s))

\* The timer of the waiting call i fires: the rest of the operation runs, then
\* execute records the outcome and the caller gets the result or the error.
Complete(i, r) ==
    /\ i \in DOMAIN inflight
    /\ FiresNext(i)
    /\ LET c == inflight[i]
           out == RunOperation(c, now, r)
           cb == ExecuteSettle(circuitBreaker, out.ok, now)
       IN  /\ tasks' = out.tasks
           /\ eventStore' = out.eventStore
           /\ circuitBreaker' = cb
           /\ inflight' = Remove(inflight, i)
           /\ returned' = IF out.ok THEN returned + 1 ELSE returned
           /\ failStreak' = IF out.ok THEN 0 ELSE failStreak + 1
           /\ last' = Step(c.op, "complete",
                           IF out.ok THEN "returned" ELSE "failed", out.value, c.seq)
    /\ UNCHANGED <<impl, now, nCalls, overlapped, healAt, qVars>>

\* The clock is read again when the next timer is due: it advances to the
\* earliest deadline (a timer fires at its deadline).
NextDeadline ==
    CHOOSE d \in {inflight[i].due : i \in DOMAIN inflight} :
        \A i \in DOMAIN inflight : d <= inflight[i].due

TimerDue ==
    /\ inflight # <<>>
    /\ NextDeadline > now
    /\ now' = NextDeadline
    /\ last' = Step("tick", "none", "none", <<>>, 0)
    /\ UNCHANGED <<impl, circuitBreaker, tasks, eventStore, inflight, nCalls,
                   returned, overlapped, failStreak, healAt, qVars>>

\* Nothing is waiting and the caller lets the breaker's cool-down pass.
Idle ==
    /\ inflight = <<>>
    /\ now + timeout <= MaxTime
    /\ now' = now + timeout
    /\ last' = Step("tick", "none", "none", <<>>, 0)
    /\ UNCHANGED <<impl, circuitBreaker, tasks, eventStore, inflight, nCalls,
                   returned, overlapped, failStreak, healAt, qVars>>

\* The Task values a caller of TaskCommandService holds: for each task the
\* value the service returned last (the payload of its last event)
HeldTasks ==
    {eventStore[i].payload : i \in {k \in DOMAIN eventStore :
        \A j \in DOMAIN eventStore :
            eventStore[j].aggregateId = eventStore[k].aggregateId => j <= k}}

CallStatuses == {"completed"}

Next ==
    \/ /\ nCalls < MaxCalls
       /\ \E title \in Titles, priority \in CallPriorities : createTask(title, priority)
    \/ /\ nCalls < MaxCalls
       /\ \E task \in HeldTasks, status \in CallStatuses :
             updateTaskStatusByValue(task, status)
    \/ /\ nCalls < MaxCalls
       /\ \E taskId \in {t.id : t \in Range(tasks)} \cup {MissingId}, status \in CallStatuses :
             updateTaskStatusById(taskId, status)
    \/ \E i \in 1..MaxInflight, r \in RandomSuffixes(now) : Complete(i, r)
    \/ TimerDue
    \/ Idle

Spec == Init /\ [][Next]_vars


----------------------------------------------------------------------------
(* The read side: TaskQueryService applied to arrays of bounded length *)

QTask(k, status, priority) == Task(TaskId(k, 1), "a", status, priority, k, k)

QEvent(k) ==
    LET task == QTask(k, "pending", "low") IN
    DomainEvent("TASK_CREATED", task, k, task.id)

QEventSet == {QEvent(k) : k \in 1..3}

QTaskSet == {QTask(0, status, priority) : status \in Statuses, priority \in Priorities}

SeqsUpTo(S, n) == UNION {[1..k -> S] : k \in 0..n}

InitQuery ==
    /\ impl = "TaskCommandService"
    /\ now = 0
    /\ circuitBreaker = NewCircuitBreaker(0)
    /\ tasks = <<>>
    /\ eventStore = <<>>
    /\ inflight = <<>>
    /\ last = Step("none", "none", "none", <<>>, 0)
    /\ nCalls = 0
    /\ returned = 0
    /\ overlapped = FALSE
    /\ failStreak = 0
    /\ healAt = 0 - 1
    /\ \/ /\ qEvents \in SeqsUpTo(QEventSet, MaxQLen)
          /\ qLimit \in (0 - MaxQLimit)..MaxQLimit
          /\ qTasks = <<>>
       \/ /\ qEvents = <<>>
          /\ qLimit = DefaultLimit
          /\ qTasks \in SeqsUpTo(QTaskSet, MaxQTasks)
    /\ qResult = NoQuery

\* A caller's getRecentEvents(qEvents, limit)
GetRecentEventsCall(limit) ==
    LET call == getRecentEvents(qEvents, limit) IN
    /\ qResult' = [op |-> "getRecentEvents", input |-> qEvents, limit |-> limit,
                   value |-> call.returns]
    /\ qEvents' = call.events
    /\ UNCHANGED <<svcVars, qLimit, qTasks>>

GetRecentEvents ==
    /\ qResult = NoQuery
    /\ GetRecentEventsCall(qLimit)

\* getRecentEvents(qEvents) with the limit left to its default
GetRecentEventsDefault ==
    /\ qResult = NoQuery
    /\ GetRecentEventsCall(DefaultLimit)

GetTaskMetrics ==
    /\ qResult = NoQuery
    /\ qResult' = [op |-> "getTaskMetrics", input |-> qTasks, value |-> getTaskMetrics(qTasks)]
    /\ UNCHANGED <<svcVars, qEvents, qLimit, qTasks>>

NextQuery ==
    \/ GetRecentEvents
    \/ GetRecentEventsDefault
    \/ GetTaskMetrics

SpecQuery == InitQuery /\ [][NextQuery]_vars

----------------------------------------------------------------------------
(* The services with every status as input, fewer calls, and a caller
   that reads the log with getEvents and changes the array it received *)

MaxWideCalls == 3

\* What a caller can do to an array: add, remove or reorder elements
ArrayChanges == {"push", "pop", "reverse"}

ChangedArray(a, change) ==
    CASE change = "push"    -> Append(a, QEvent(1))
      [] change = "pop"     -> IF a = <<>> THEN a ELSE SubSeq(a, 1, Len(a) - 1)
      [] change = "reverse" -> Reverse(a)

\* const events = service.getEvents()
GetEvents ==
    LET call == getEvents(eventStore) IN
    /\ qResult = NoQuery
    /\ qEvents' = call.returns
    /\ qResult' = [op |-> "getEvents", shared |-> call.shared]
    /\ UNCHANGED <<svcVars, qLimit, qTasks>>

\* The caller changes the array getEvents returned; the stored log changes
\* with it exactly when the two are one array.
ChangeReturned(change) ==
    /\ qResult.op = "getEvents"
    /\ qEvents' = ChangedArray(qEvents, change)
    /\ eventStore' = IF qResult.shared THEN qEvents' ELSE eventStore
    /\ qResult' = [op |-> "changed", shared |-> qResult.shared]
    /\ UNCHANGED <<impl, now, circuitBreaker, tasks, inflight, last, nCalls, returned,
                   overlapped, failStreak, healAt, qLimit, qTasks>>

NextWide ==
    \/ /\ nCalls < MaxWideCalls
       /\ \E title \in Titles, priority \in CallPriorities : createTask(title, priority)
    \/ /\ nCalls < MaxWideCalls
       /\ \E task \in HeldTasks, status \in Statuses :
             updateTaskStatusByValue(task, status)
    \/ /\ nCalls < MaxWideCalls
       /\ \E taskId \in {t.id : t \in Range(tasks)} \cup {MissingId}, status \in Statuses :
             updateTaskStatusById(taskId, status)
    \/ \E i \in 1..MaxInflight, r \in RandomSuffixes(now) : Complete(i, r)
    \/ TimerDue
    \/ GetEvents
    \/ \E change \in ArrayChanges : ChangeReturned(change)

SpecWide == Init /\ [][NextWide]_vars

----------------------------------------------------------------------------
(* The services with tasks of every priority, so that two tasks created at
   the same clock value can differ *)

MaxReplayCalls == 3

NextReplay ==
    \/ /\ nCalls < MaxReplayCalls
       /\ \E title \in Titles, priority \in Priorities : createTask(title, priority)
    \/ /\ nCalls < MaxReplayCalls
       /\ \E task \in HeldTasks, status \in CallStatuses :
             updateTaskStatusByValue(task, status)
    \/ /\ nCalls < MaxReplayCalls
       /\ \E taskId \in {t.id : t \in Range(tasks)} \cup {MissingId},
             status \in CallStatuses :
             updateTaskStatusById(taskId, status)
    \/ \E i \in 1..MaxInflight, r \in RandomSuffixes(now) : Complete(i, r)
    \/ TimerDue

SpecReplay == Init /\ [][NextReplay]_vars

----------------------------------------------------------------------------
(* Recovery: from some point on every admitted operation succeeds, calls keep
   arriving and the clock keeps advancing *)

MaxLiveCalls == 3    \* calls made before that point
MaxHealCalls == 3    \* calls admitted after it

Healed == healAt >= 0

\* The point from which every admitted operation succeeds.  The operations
\* admitted before it have settled.
Heal ==
    /\ ~Healed
    /\ inflight = <<>>
    /\ healAt' = nCalls
    /\ UNCHANGED <<impl, now, circuitBreaker, tasks, eventStore, inflight, last, nCalls,
                   returned, overlapped, failStreak, qVars>>

\* A call after that point: its operation succeeds.  createTask stands for
\* all of them (the breaker sees only that the operation returned), and the
\* calls the gate rejects are left out: they change nothing.
HealedCall ==
    /\ Healed
    /\ nCalls < healAt + MaxHealCalls
    /\ Gate(circuitBreaker, now).admit
    /\ \E title \in Titles, priority \in CallPriorities : createTask(title, priority)

\* The clock keeps advancing: the cool-down of an OPEN breaker passes
CoolDown ==
    /\ Healed
    /\ inflight = <<>>
    /\ circuitBreaker.state = "OPEN"
    /\ now < circuitBreaker.nextAttempt
    /\ now' = now + timeout
    /\ last' = Step("tick", "none", "none", <<>>, 0)
    /\ UNCHANGED <<impl, circuitBreaker, tasks, eventStore, inflight, nCalls,
                   returned, overlapped, failStreak, healAt, qVars>>

Settle == \E i \in 1..MaxInflight, r \in RandomSuffixes(now) : Complete(i, r)

NextLive ==
    \/ /\ ~Healed
       /\ nCalls < MaxLiveCalls
       /\ \/ \E title \in Titles, priority \in CallPriorities : createTask(title, priority)
          \/ \E task \in HeldTasks, status \in CallStatuses :
                updateTaskStatusByValue(task, status)
          \/ \E taskId \in {t.id : t \in Range(tasks)} \cup {MissingId},
                status \in CallStatuses :
                updateTaskStatusById(taskId, status)
    \/ ~Healed /\ Idle
    \/ Heal
    \/ HealedCall
    \/ CoolDown
    \/ Settle
    \/ TimerDue

\* Timers fire and settled operations resume (the event loop); calls keep
\* arriving and the clock keeps advancing (the premises of the recovery).
SpecLive ==
    /\ Init
    /\ [][NextLive]_vars
    /\ WF_vars(Settle)
    /\ WF_vars(TimerDue)
    /\ WF_vars(HealedCall)
    /\ WF_vars(CoolDown)


----------------------------------------------------------------------------
(* Steps, as seen from the fields they change *)

\* a call of execute is made in this step
IsInvoke == nCalls' = nCalls + 1

\* the call made in this step was rejected by the gate
IsRejected == IsInvoke /\ last'.outcome = "rejected"

\* the call made in this step passed the gate and its operation was started
IsAdmitted == IsInvoke /\ Len(inflight') = Len(inflight) + 1

\* a waiting call's operation finishes in this step
IsComplete == Len(inflight') = Len(inflight) - 1

\* ... and it returned / threw
IsSuccess == IsComplete /\ returned' = returned + 1
IsFailure == IsComplete /\ returned' = returned

\* The call whose timer fires next, that is the one a completing step completes
CompletedCall == inflight[CHOOSE i \in DOMAIN inflight : FiresNext(i)]

IsPrefix(s, t) == Len(s) <= Len(t) /\ SubSeq(t, 1, Len(s)) = s

\* The step is a caller changing the array it received from getEvents
IsChange == qResult.op = "getEvents" /\ qResult'.op = "changed"

----------------------------------------------------------------------------
(* C1 *)

\* C1: a failure of an admitted operation while the breaker is HALF_OPEN leaves
\* the breaker OPEN with nextAttempt = now + timeout and successCount = 0,
\* whatever successes were recorded in HALF_OPEN before; stated for calls made
\* one after the other.  (Fails: onFailure compares failureCount with the
\* threshold and never looks at the state, and a success in HALF_OPEN has
\* reset failureCount to 0.)
C1_HalfOpenFailureReopens ==
    [][(IsFailure /\ ~overlapped /\ circuitBreaker.state = "HALF_OPEN")
         => /\ circuitBreaker'.state = "OPEN"
            /\ circuitBreaker'.nextAttempt = now + timeout
            /\ circuitBreaker'.successCount = 0]_vars

----------------------------------------------------------------------------
(* C2 *)

\* C2: a call made while the breaker is OPEN and now < nextAttempt is rejected,
\* its operation is not started, and the breaker, the event log and the tasks
\* are left as they were.
C2_RejectedWhileOpen ==
    [][(IsInvoke /\ circuitBreaker.state = "OPEN" /\ now < circuitBreaker.nextAttempt)
         => /\ last'.outcome = "rejected"
            /\ inflight' = inflight
            /\ circuitBreaker' = circuitBreaker
            /\ eventStore' = eventStore
            /\ tasks' = tasks
            /\ returned' = returned]_vars

\* a call of each service operation has just been rejected during the cool-down
C2_Witness ==
    /\ last.step = "invoke" /\ last.outcome = "rejected"
    /\ circuitBreaker.state = "OPEN"
    /\ now < circuitBreaker.nextAttempt
    /\ circuitBreaker.failureCount >= threshold

----------------------------------------------------------------------------
(* C3 *)

\* the calls so far were made one after the other and every one of them failed
OnlyFailuresInSequence == returned = 0 /\ ~overlapped

\* C3 as claimed: in a sequence of failing calls on a fresh breaker the state
\* changes into OPEN only at the call that brings failureCount to the
\* threshold, and nextAttempt is set to now + timeout there.  (Fails: once the
\* cool-down has passed, the next failing call is admitted as HALF_OPEN and
\* changes the state into OPEN a second time.)
C3_OpensOnlyAtThreshold ==
    [][OnlyFailuresInSequence'
         => /\ (circuitBreaker.state # "OPEN" /\ circuitBreaker'.state = "OPEN")
                 <=> (IsFailure /\ circuitBreaker'.failureCount = threshold)
            /\ (circuitBreaker.state # "OPEN" /\ circuitBreaker'.state = "OPEN")
                 => circuitBreaker'.nextAttempt = now + timeout]_vars

\* C3 amended: in such a sequence the breaker leaves CLOSED exactly once, for
\* OPEN, at the call that brings failureCount to the threshold, with
\* nextAttempt = now + timeout; it never returns to CLOSED, and every later
\* change into OPEN comes from HALF_OPEN (a failing call admitted after the
\* cool-down) and sets nextAttempt = now + timeout again.
C3_LeavesClosedOnce ==
    [][OnlyFailuresInSequence'
         => /\ (circuitBreaker.state = "CLOSED" /\ circuitBreaker'.state # "CLOSED")
                 <=> (IsFailure /\ circuitBreaker'.failureCount = threshold)
            /\ (circuitBreaker.state = "CLOSED" /\ circuitBreaker'.state # "CLOSED")
                 => circuitBreaker'.state = "OPEN"
            /\ (circuitBreaker.state # "OPEN" /\ circuitBreaker'.state = "OPEN")
                 => /\ IsFailure
                    /\ circuitBreaker'.failureCount >= threshold
                    /\ circuitBreaker'.nextAttempt = now + timeout
            /\ circuitBreaker'.state = "CLOSED" => circuitBreaker.state = "CLOSED"]_vars

\* more failing calls than the threshold, one after the other, the last of them
\* admitted after the cool-down
C3_Witness ==
    /\ OnlyFailuresInSequence
    /\ last.outcome = "failed"
    /\ circuitBreaker.state = "OPEN"
    /\ circuitBreaker.failureCount > threshold

----------------------------------------------------------------------------
(* C4 *)

\* C4: a call made while the breaker is OPEN and now >= nextAttempt turns the
\* breaker HALF_OPEN and starts the wrapped operation; it is not rejected.
C4_AdmittedAfterCoolDown ==
    [][(IsInvoke /\ circuitBreaker.state = "OPEN" /\ now >= circuitBreaker.nextAttempt)
         => /\ last'.outcome = "admitted"
            /\ IsAdmitted
            /\ circuitBreaker'.state = "HALF_OPEN"
            /\ inflight'[Len(inflight')].op = last'.op]_vars

\* the breaker opened, and a call made exactly at nextAttempt was admitted
C4_Witness ==
    /\ last.step = "invoke" /\ last.outcome = "admitted"
    /\ circuitBreaker.state = "HALF_OPEN"
    /\ circuitBreaker.failureCount >= threshold
    /\ now = circuitBreaker.nextAttempt
    /\ Len(inflight) = 1

----------------------------------------------------------------------------
(* C5 *)

\* C5: a success in HALF_OPEN that brings successCount to successThreshold
\* closes the breaker with both counters 0; any other success in HALF_OPEN
\* adds one to successCount and leaves the breaker HALF_OPEN; and the breaker
\* becomes CLOSED in no other way.
C5_HalfOpenSuccess ==
    [][/\ (IsSuccess /\ circuitBreaker.state = "HALF_OPEN")
            => IF circuitBreaker.successCount + 1 >= successThreshold
               THEN /\ circuitBreaker'.state = "CLOSED"
                    /\ circuitBreaker'.failureCount = 0
                    /\ circuitBreaker'.successCount = 0
               ELSE /\ circuitBreaker'.state = "HALF_OPEN"
                    /\ circuitBreaker'.successCount = circuitBreaker.successCount + 1
       /\ (circuitBreaker.state # "CLOSED" /\ circuitBreaker'.state = "CLOSED")
            => /\ IsSuccess
               /\ circuitBreaker.state = "HALF_OPEN"
               /\ circuitBreaker.successCount + 1 = successThreshold]_vars

\* three failures, the cool-down, then two successes, one call after the other:
\* the breaker is CLOSED again with its counters zeroed
C5_Witness ==
    /\ ~overlapped
    /\ nCalls = threshold + successThreshold
    /\ returned = successThreshold
    /\ inflight = <<>>
    /\ circuitBreaker.nextAttempt = now - CreateDelay - CreateDelay
    /\ circuitBreaker.state = "CLOSED"
    /\ circuitBreaker.failureCount = 0
    /\ circuitBreaker.successCount = 0


----------------------------------------------------------------------------
(* C6 *)

\* C6: a call that returns a Task appends exactly one event, whose payload is
\* the returned Task and whose aggregateId is the payload's id; no other step
\* (a rejected call, a failed call, an invocation, the clock) changes the log;
\* so the length of the log is the number of calls that returned.
C6_OneEventPerReturn ==
    [][/\ IF IsComplete /\ last'.outcome = "returned"
          THEN /\ Len(last'.result) = 1
               /\ Len(eventStore') = Len(eventStore) + 1
               /\ SubSeq(eventStore', 1, Len(eventStore)) = eventStore
               /\ eventStore'[Len(eventStore')].payload = last'.result[1]
               /\ eventStore'[Len(eventStore')].aggregateId = last'.result[1].id
          ELSE eventStore' = eventStore
       /\ Len(eventStore') = returned']_vars

\* an update has just returned in the id-based service after other calls had
\* failed and been rejected
C6_Witness ==
    /\ impl = "TaskService"
    /\ last.op = "updateTaskStatus" /\ last.outcome = "returned"
    /\ Len(eventStore) = 2
    /\ returned = 2
    /\ nCalls = MaxCalls
    /\ circuitBreaker.nextAttempt > 0

----------------------------------------------------------------------------
(* C7 *)

\* C7: in the id-based service an update of an id that is not stored fails
\* without a trace: no event, the tasks unchanged, and the breaker's state,
\* failureCount, successCount and nextAttempt unchanged.  (Fails: the lookup
\* runs inside the operation handed to execute, so the failure is counted by
\* onFailure and three of them open the breaker.)
C7_NotFoundLeavesNoTrace ==
    [][(IsFailure /\ impl = "TaskService" /\ last'.op = "updateTaskStatus")
         => /\ eventStore' = eventStore
            /\ tasks' = tasks
            /\ circuitBreaker' = circuitBreaker]_vars

\* C7, its consequence: a createTask is never rejected when every failure so
\* far was an update of an unknown id.  (Fails in the same way.)
C7_CreateNeverRejected ==
    ~(impl = "TaskService" /\ last.op = "createTask" /\ last.outcome = "rejected")

----------------------------------------------------------------------------
(* C8 *)

\* C8: getRecentEvents returns the empty sequence for every limit <= 0.
\* (Fails: slice(-0) is slice(0), the whole array; slice(-limit) with a
\* negative limit drops the first |limit| events and keeps the rest.)
C8_NonPositiveLimitEmpty ==
    (qResult.op = "getRecentEvents" /\ qResult.limit <= 0) => qResult.value = <<>>

----------------------------------------------------------------------------
(* C9 *)

\* C9: for a limit > 0 getRecentEvents returns min(limit, L) events, the last
\* ones of its input of length L, most recent first, and leaves the array it
\* was given as it was.
C9_LastEventsReversed ==
    (qResult.op = "getRecentEvents" /\ qResult.limit > 0)
      => LET L == Len(qResult.input)
             n == IF qResult.limit < L THEN qResult.limit ELSE L
         IN  /\ Len(qResult.value) = n
             /\ \A i \in 1..n : qResult.value[i] = qResult.input[L + 1 - i]
             /\ qEvents = qResult.input

\* the default limit applied to a longer log of distinct events
C9_Witness ==
    /\ qResult.op = "getRecentEvents"
    /\ qResult.limit = DefaultLimit
    /\ Len(qResult.input) = DefaultLimit + 1
    /\ qResult.input[1] # qResult.input[DefaultLimit + 1]
    /\ Len(qResult.value) = DefaultLimit
    /\ qResult.value[1] = qResult.input[DefaultLimit + 1]

\* a limit larger than the log: all events, reversed
C9_WitnessShortLog ==
    /\ qResult.op = "getRecentEvents"
    /\ qResult.limit > Len(qResult.input)
    /\ Len(qResult.input) = 3
    /\ qResult.value = <<qResult.input[3], qResult.input[2], qResult.input[1]>>
    /\ qResult.input[1] # qResult.input[3]

----------------------------------------------------------------------------
(* C10 *)

CountTasks(ts, P(_)) == Cardinality({i \in DOMAIN ts : P(ts[i])})

\* C10: getTaskMetrics counts the tasks, the tasks of each status, and the
\* tasks of priority high whatever their status; so total is the sum of the
\* four status counts, highPriority <= total, and all counts are 0 for the
\* empty collection.
C10_MetricsCount ==
    qResult.op = "getTaskMetrics"
      => LET m == qResult.value
             HasStatus(st) == LET P(t) == t.status = st IN CountTasks(qTasks, P)
             IsHigh(t) == t.priority = "high"
         IN  /\ qTasks = qResult.input
             /\ m.total = Len(qTasks)
             /\ m.completed = HasStatus("completed")
             /\ m.inProgress = HasStatus("in_progress")
             /\ m.pending = HasStatus("pending")
             /\ m.failed = HasStatus("failed")
             /\ m.highPriority = CountTasks(qTasks, IsHigh)
             /\ m.total = m.completed + m.inProgress + m.pending + m.failed
             /\ m.highPriority <= m.total
             /\ qTasks = <<>> => m = [total |-> 0, completed |-> 0, inProgress |-> 0,
                                      pending |-> 0, failed |-> 0, highPriority |-> 0]

\* two completed, one pending, one high-priority in_progress task
C10_Witness ==
    /\ qResult.op = "getTaskMetrics"
    /\ Len(qTasks) = 4
    /\ qTasks[4].priority = "high" /\ qTasks[4].status = "in_progress"
    /\ \A i \in 1..3 : qTasks[i].priority # "high"
    /\ qResult.value = [total |-> 4, completed |-> 2, inProgress |-> 1,
                        pending |-> 1, failed |-> 0, highPriority |-> 1]

\* a completed task of priority high is counted as high priority
C10_WitnessCompletedHigh ==
    /\ qResult.op = "getTaskMetrics"
    /\ qResult.value.completed = 1
    /\ qResult.value.highPriority = 1
    /\ qResult.value.total = 1

----------------------------------------------------------------------------
(* C11 *)

\* C11: the event log is append-only, every step leaves the previous log as
\* a prefix of the new log, and getEvents returns a copy: when a caller adds,
\* removes or reorders elements of the array it received, the stored log
\* stays as it was.
C11_LogAppendOnly ==
    [][/\ IsPrefix(eventStore, eventStore')
       /\ IsChange => eventStore' = eventStore]_vars

\* A caller reversed the array it received, which held the whole log of two
\* or more events
C11_Witness ==
    /\ qResult.op = "changed"
    /\ Len(eventStore) >= 2
    /\ qEvents = Reverse(eventStore)
    /\ qEvents # eventStore

----------------------------------------------------------------------------
(* C12 *)

\* C12: a call of execute that passes the gate runs the wrapped operation
\* exactly once: it waits once (the waiting calls carry distinct call numbers)
\* and it settles once, appending one event if the operation returns and none
\* if it fails; the caller receives exactly the operation's result or exactly
\* its failure, and by then the outcome is in the counters: a failure adds one
\* to failureCount.
C12_ExecutedOnce ==
    [][/\ \A i, j \in DOMAIN inflight : inflight[i].seq = inflight[j].seq => i = j
       /\ IsAdmitted =>
             /\ inflight' = Append(inflight, inflight'[Len(inflight')])
             /\ inflight'[Len(inflight')].seq = nCalls'
             /\ eventStore' = eventStore /\ tasks' = tasks
       /\ IsComplete =>
             /\ last'.seq = CompletedCall.seq
             /\ \A i \in DOMAIN inflight' : inflight'[i].seq # CompletedCall.seq
       /\ IsSuccess =>
             /\ Len(eventStore') = Len(eventStore) + 1
             /\ last'.outcome = "returned"
             /\ last'.result = <<eventStore'[Len(eventStore')].payload>>
             /\ circuitBreaker'.failureCount = 0
       /\ IsFailure =>
             /\ eventStore' = eventStore /\ tasks' = tasks
             /\ last'.outcome = "failed"
             /\ last'.result = <<>>
             /\ circuitBreaker'.failureCount = circuitBreaker.failureCount + 1]_vars

\* A second failure in a row has just been counted, after some call returned
C12_Witness ==
    /\ last.step = "complete" /\ last.outcome = "failed"
    /\ circuitBreaker.failureCount = 2
    /\ returned >= 1

----------------------------------------------------------------------------
(* C13 *)

\* Some call is waiting on its operation both before and after the step
StaysWaiting ==
    \E i \in DOMAIN inflight, j \in DOMAIN inflight' : inflight[i].seq = inflight'[j].seq

\* C13: the gate check of a call and its own onSuccess/onFailure form one
\* indivisible unit: while a call is between the two, no other call passes
\* the gate check or has its outcome applied, so the breaker's state and
\* counters stay as that call's gate check left them.
C13_GateAndOutcomeIndivisible ==
    [][StaysWaiting => /\ ~IsInvoke
                       /\ ~IsComplete
                       /\ circuitBreaker' = circuitBreaker]_vars

\* Weaker reading of C13: other calls may come and go, but the breaker's state
\* and counters are not changed while a call is waiting
C13_BreakerUntouchedWhileWaiting ==
    [][StaysWaiting => circuitBreaker' = circuitBreaker]_vars

----------------------------------------------------------------------------
(* C14 *)

\* The task a waiting call is about: none yet for a createTask
CallTaskId(c) ==
    IF c.op = "createTask" THEN <<>>
    ELSE IF impl = "TaskService" THEN <<c.taskId>> ELSE <<c.task.id>>

\* C14: with overlapping createTask and updateTaskStatus calls the events are
\* in the log in the order in which their operations complete, whatever the
\* order in which the calls were made: the event of the call that completes
\* (TASK_CREATED for a createTask, about the given task for an
\* updateTaskStatus, stamped with the completion time) goes to the end of the
\* log, behind the events of every call that completed before, also when calls
\* made earlier are still waiting; so the log is ordered by completion time.
C14_LogInCompletionOrder ==
    [][/\ IsSuccess =>
             LET c == CompletedCall
                 e == eventStore'[Len(eventStore')]
             IN  /\ eventStore' = Append(eventStore, e)
                 /\ e.timestamp = now
                 /\ (e.type = "TASK_CREATED") = (c.op = "createTask")
                 /\ CallTaskId(c) \in {<<>>, <<e.aggregateId>>}
       /\ \A i, j \in DOMAIN eventStore :
             i <= j => eventStore[i].timestamp <= eventStore[j].timestamp]_vars

\* The event of an updateTaskStatus is the last of the log while a createTask
\* made before that update is still waiting
C14_Witness ==
    /\ last.step = "complete" /\ last.outcome = "returned"
    /\ last.op = "updateTaskStatus"
    /\ eventStore[Len(eventStore)].payload = last.result[1]
    /\ \E i \in DOMAIN inflight :
          inflight[i].op = "createTask" /\ inflight[i].seq < last.seq

----------------------------------------------------------------------------
(* C15 *)

\* C15: in every reachable log the type of an event agrees with how it was
\* produced: the event of a createTask has type TASK_CREATED and
\* payload.status = pending; the event of an updateTaskStatus has type
\* TASK_COMPLETED if and only if the new status is completed and TASK_UPDATED
\* otherwise (new status failed included); no event has type TASK_FAILED.
C15_EventTypes ==
    [][/\ IsSuccess =>
             LET c == CompletedCall
                 e == eventStore'[Len(eventStore')]
             IN  IF c.op = "createTask"
                 THEN e.type = "TASK_CREATED" /\ e.payload.status = "pending"
                 ELSE /\ e.payload.status = c.status
                      /\ (e.type = "TASK_COMPLETED") = (c.status = "completed")
                      /\ (e.type = "TASK_UPDATED") = (c.status # "completed")
       /\ \A i \in DOMAIN eventStore :
             LET e == eventStore[i] IN
             /\ e.type \in {"TASK_CREATED", "TASK_UPDATED", "TASK_COMPLETED"}
             /\ e.type = "TASK_CREATED" => e.payload.status = "pending"
             /\ e.type = "TASK_COMPLETED" => e.payload.status = "completed"
             /\ e.type = "TASK_UPDATED" => e.payload.status # "completed"]_vars

\* The log holds the event of a task set to failed, of type TASK_UPDATED,
\* besides a TASK_COMPLETED one
C15_Witness ==
    /\ \E i \in DOMAIN eventStore :
          eventStore[i].type = "TASK_UPDATED" /\ eventStore[i].payload.status = "failed"
    /\ \E i \in DOMAIN eventStore : eventStore[i].type = "TASK_COMPLETED"

----------------------------------------------------------------------------
(* C16 *)

\* The Task an updateTaskStatus call works on: the one handed over, or the
\* stored one with the given id (none if there is none)
GivenTask(c) == IF impl = "TaskService" THEN Find(tasks, c.taskId) ELSE <<c.task>>

\* C16: an updateTaskStatus whose task exists succeeds for every pair of old
\* and new status, backward ones such as completed to pending included, and
\* returns a Task with the id, title, priority and createdAt of the input
\* task, status = the new status and updatedAt = now; the Task value it was
\* given is not modified: the events that already hold it keep their payload.
C16_UpdateFrame ==
    [][(IsComplete /\ CompletedCall.op = "updateTaskStatus"
                   /\ GivenTask(CompletedCall) # <<>>) =>
          LET c == CompletedCall
              task == GivenTask(c)[1]
              updatedTask == last'.result[1]
          IN  /\ IsSuccess
              /\ Len(last'.result) = 1
              /\ updatedTask.id = task.id
              /\ updatedTask.title = task.title
              /\ updatedTask.priority = task.priority
              /\ updatedTask.createdAt = task.createdAt
              /\ updatedTask.status = c.status
              /\ updatedTask.updatedAt = now
              /\ IsPrefix(eventStore, eventStore')
              /\ \E i \in DOMAIN eventStore : eventStore'[i].payload = task]_vars

\* A task that was completed has just been set back to pending, later than it
\* was created
C16_Witness ==
    /\ last.step = "complete" /\ last.op = "updateTaskStatus" /\ last.outcome = "returned"
    /\ last.result[1].status = "pending"
    /\ last.result[1].updatedAt > last.result[1].createdAt
    /\ \E i \in DOMAIN eventStore :
          /\ eventStore[i].type = "TASK_COMPLETED"
          /\ eventStore[i].aggregateId = last.result[1].id

----------------------------------------------------------------------------
(* C17 *)

\* C17: with calls made one after the other, a call that returns in CLOSED
\* resets failureCount to 0 and leaves the breaker CLOSED, and the breaker
\* goes from CLOSED to OPEN only at a failure that is the last of
\* failureThreshold failures with no returning call between them: a failure
\* with fewer failures in a row behind it leaves the breaker CLOSED, however
\* many failures there were in all.
C17_OnlyConsecutiveFailuresTrip ==
    [][(~overlapped' /\ circuitBreaker.state = "CLOSED") =>
          /\ IsSuccess => /\ circuitBreaker'.failureCount = 0
                          /\ circuitBreaker'.state = "CLOSED"
          /\ circuitBreaker'.state = "OPEN" => IsFailure /\ failStreak' = threshold
          /\ (IsFailure /\ failStreak' < threshold) => circuitBreaker'.state = "CLOSED"
          /\ circuitBreaker'.state # "CLOSED" => circuitBreaker'.state = "OPEN"]_vars

\* The breaker has never opened although more than failureThreshold calls
\* failed, one after the other, with returning calls between them
C17_Witness ==
    /\ ~overlapped /\ inflight = <<>>
    /\ circuitBreaker.state = "CLOSED" /\ circuitBreaker.nextAttempt = 0
    /\ nCalls - returned > threshold
    /\ failStreak = 2

----------------------------------------------------------------------------
(* C18 *)

\* C18: the breaker has no terminal state and always recovers: from any
\* reachable state, if the clock keeps advancing, calls keep arriving and
\* from some point on every admitted operation succeeds, the breaker
\* eventually becomes CLOSED; and an OPEN breaker admits every call made at
\* or after nextAttempt.
C18_Recovers ==
    /\ Healed ~> (circuitBreaker.state = "CLOSED")
    /\ [][(IsInvoke /\ circuitBreaker.state = "OPEN"
                    /\ now >= circuitBreaker.nextAttempt) => IsAdmitted]_vars

\* The breaker is CLOSED again: three operations failed and opened it, and
\* the operations after that point, admitted after the cool-down, succeeded
C18_Witness ==
    /\ healAt = threshold
    /\ failStreak = 0
    /\ returned = successThreshold
    /\ circuitBreaker.state = "CLOSED"
    /\ now >= circuitBreaker.nextAttempt /\ circuitBreaker.nextAttempt > 0

----------------------------------------------------------------------------
(* C19 *)

\* C19: task ids are unique and never reused: no two createTask calls return
\* Tasks with the same id, also when they complete at the same clock value,
\* so no two TASK_CREATED events share an aggregateId and no two stored tasks
\* share an id (an updateTaskStatus by id changes at most one stored task).
C19_IdsUnique ==
    /\ \A i, j \in DOMAIN eventStore :
          (/\ eventStore[i].type = "TASK_CREATED"
           /\ eventStore[j].type = "TASK_CREATED"
           /\ eventStore[i].aggregateId = eventStore[j].aggregateId) => i = j
    /\ \A i, j \in DOMAIN tasks : tasks[i].id = tasks[j].id => i = j

\* Ids of tasks created at different clock values differ
C19_IdsUniqueAcrossClockValues ==
    \A i, j \in DOMAIN eventStore :
        (/\ eventStore[i].type = "TASK_CREATED"
         /\ eventStore[j].type = "TASK_CREATED"
         /\ eventStore[i].timestamp # eventStore[j].timestamp) =>
            eventStore[i].aggregateId # eventStore[j].aggregateId

----------------------------------------------------------------------------
(* C20 *)

\* C20: in every reachable breaker state, under any interleaving of calls,
\* successCount > 0 only while the state is HALF_OPEN, successCount is below
\* successThreshold, and state CLOSED implies failureCount < failureThreshold.
C20_CounterInvariant ==
    /\ circuitBreaker.successCount > 0 => circuitBreaker.state = "HALF_OPEN"
    /\ circuitBreaker.successCount >= 0
    /\ circuitBreaker.successCount < successThreshold
    /\ circuitBreaker.state = "CLOSED" => circuitBreaker.failureCount < threshold
    /\ circuitBreaker.failureCount >= 0

\* Overlapping calls: one returned in HALF_OPEN while another, admitted in the
\* same HALF_OPEN period, is still waiting
C20_Witness ==
    /\ overlapped
    /\ circuitBreaker.state = "HALF_OPEN" /\ circuitBreaker.successCount = 1
    /\ inflight # <<>>
    /\ last.step = "complete"

----------------------------------------------------------------------------
(* C21 *)

\* The TASK_CREATED events of the log, in log order
CreatedEvents == SelectSeq(eventStore, LAMBDA e : e.type = "TASK_CREATED")

\* The payload of the last event of the log about the given aggregate
LastPayload(aggregateId) ==
    LET about == {i \in DOMAIN eventStore : eventStore[i].aggregateId = aggregateId}
    IN  eventStore[CHOOSE i \in about : \A j \in about : j <= i].payload

\* C21: in the id-based service, after any sequence and interleaving of
\* createTask and updateTaskStatus calls, the stored tasks are the replay of
\* the event log: their ids are the aggregateIds of the TASK_CREATED events,
\* in creation order, and each stored task equals the payload of the last
\* event of the log with its id.
C21_TasksAreReplay ==
    impl = "TaskService" =>
        /\ Len(tasks) = Len(CreatedEvents)
        /\ \A i \in DOMAIN tasks :
              /\ tasks[i].id = CreatedEvents[i].aggregateId
              /\ tasks[i] = LastPayload(tasks[i].id)

\* As long as no two created tasks share an id, the stored tasks are the
\* replay of the log
C21_ReplayWhileIdsUnique == C19_IdsUnique => C21_TasksAreReplay

\* Tasks were created and one of them was updated while another call was
\* waiting, all with different ids
C21_WitnessIdsUnique ==
    /\ impl = "TaskService"
    /\ C19_IdsUnique
    /\ overlapped
    /\ Len(tasks) >= 2
    /\ Len(eventStore) > Len(tasks)

----------------------------------------------------------------------------
(* C22 *)

\* The step leaves the log and the breaker's counters as they are and settles
\* no operation
LeavesLogAndCounters ==
    /\ ~IsComplete
    /\ eventStore' = eventStore
    /\ circuitBreaker'.failureCount = circuitBreaker.failureCount
    /\ circuitBreaker'.successCount = circuitBreaker.successCount

\* C22: also with several calls in flight on one service, no event is
\* appended and no breaker counter is changed while the breaker's state is
\* OPEN: every event is appended and every onSuccess/onFailure is applied
\* while the state is CLOSED or HALF_OPEN.
C22_NothingSettlesWhileOpen ==
    [][circuitBreaker.state = "OPEN" => LeavesLogAndCounters]_vars

\* With calls made one after the other nothing settles while the breaker is
\* OPEN
C22_NothingSettlesWhileOpenSequential ==
    [][(circuitBreaker.state = "OPEN" /\ ~overlapped) => LeavesLogAndCounters]_vars

\* Calls made one after the other opened the breaker and a call has been
\* rejected since
C22_WitnessSequential ==
    /\ ~overlapped
    /\ circuitBreaker.state = "OPEN"
    /\ last.step = "invoke" /\ last.outcome = "rejected"
    /\ returned >= 1

====
